---- MODULE Spec2Model ----
(***************************************************************************)
(* holocron: the Lua table parser of lua_parser.py (parse_lua_table and    *)
(* its nested closures skip_whitespace, parse_value, parse_string,         *)
(* parse_number, parse_object), as a state machine over the characters of  *)
(* the input text.                                                         *)
(*                                                                         *)
(* A text is a sequence of one-character strings.  The cursor idx is       *)
(* 0-based as in the source, so the character under the cursor is          *)
(* s[idx + 1].  Python values are tagged records (PyNone, PyBool, PyInt,   *)
(* PyFloat, PyStr, PyList, PyDict); a dict keeps its items in insertion    *)
(* order, as CPython's dict does, because parse_object returns             *)
(* list(obj.values()).                                                     *)
(***************************************************************************)
EXTENDS Integers, Sequences, FiniteSets, TLC

\* ------------------------------------------------------------- bounds

\* Entries in a generated table literal.
MaxEntries == 2
\* Characters in a text drawn freely from RawAlphabet.
MaxRaw == 4
\* Digits before the dot, and after it, in a generated numeral; values in a
\* generated list of integers.
MaxDigits == 2
\* Positional slots one table may fill before the model stops following a
\* table-body loop that no longer consumes input.
MaxSlots == 4

\* Characters between the quotes of a generated string literal.
MaxStr == 4

\* ------------------------------------------------------- characters

Digits == {"0", "1", "2", "3", "4", "5", "6", "7", "8", "9"}

Letters ==
  {"a", "b", "c", "d", "e", "f", "g", "h", "i", "j", "k", "l", "m",
   "n", "o", "p", "q", "r", "s", "t", "u", "v", "w", "x", "y", "z",
   "A", "B", "C", "D", "E", "F", "G", "H", "I", "J", "K", "L", "M",
   "N", "O", "P", "Q", "R", "S", "T", "U", "V", "W", "X", "Y", "Z"}

\* str.isspace(), for the characters a text of the model can hold.
isspace(ch) == ch \in {" ", "\t", "\n", "\r", "\f"}

\* str.isdigit()
isdigit(ch) == ch \in Digits

\* str.isalpha()
isalpha(ch) == ch \in Letters

\* str.isalnum()
isalnum(ch) == isalpha(ch) \/ isdigit(ch)

\* The regular expression class \w.
isword(ch) == isalnum(ch) \/ ch = "_"

DigitVal(ch) ==
  CASE ch = "0" -> 0 [] ch = "1" -> 1 [] ch = "2" -> 2 [] ch = "3" -> 3
    [] ch = "4" -> 4 [] ch = "5" -> 5 [] ch = "6" -> 6 [] ch = "7" -> 7
    [] ch = "8" -> 8 [] ch = "9" -> 9

\* ------------------------------------------------------------ texts

Min(a, b) == IF a < b THEN a ELSE b

\* The Python slice s[a:b] for 0 <= a: it never raises, and stops at the
\* end of the text.
Slice(s, a, b) == SubSeq(s, a + 1, Min(b, Len(s)))

\* Whether the text s holds the characters of w at 0-based offset i
\* (s[i:i+len(w)] == w).
HasAt(s, i, w) == Slice(s, i, i + Len(w)) = w

RECURSIVE Concat(_)
Concat(ss) == IF ss = <<>> THEN <<>> ELSE Head(ss) \o Concat(Tail(ss))

\* ----------------------------------------------------------- values

PyNone == [t |-> "nil"]
PyBool(b) == [t |-> "bool", b |-> b]
PyInt(i) == [t |-> "int", i |-> i]
\* The float m / 10^e, with e >= 1 and m not a multiple of 10.
PyFloat(m, e) == [t |-> "float", m |-> m, e |-> e]
PyStr(s) == [t |-> "str", s |-> s]
PyList(xs) == [t |-> "list", xs |-> xs]
\* kv: the items <<key, value>> in insertion order.
PyDict(kv) == [t |-> "dict", kv |-> kv]

EmptyDict == PyDict(<<>>)

\* obj[key] = val on a dict's items: an existing key keeps its place and
\* takes the new value, a new key goes last.
SetItem(kv, key, val) ==
  IF \E i \in 1..Len(kv) : kv[i][1] = key
  THEN [i \in 1..Len(kv) |-> IF kv[i][1] = key THEN <<key, val>> ELSE kv[i]]
  ELSE Append(kv, <<key, val>>)

\* list(obj.values())
Values(kv) == [i \in 1..Len(kv) |-> kv[i][2]]

\* Keys of a dict's items.
Keys(kv) == {kv[i][1] : i \in 1..Len(kv)}

\* obj[key] for a key the dict holds.
GetItem(kv, key) == kv[CHOOSE i \in 1..Len(kv) : kv[i][1] = key][2]

\* ------------------------------------------------ cursor functions
\* Each takes the text and the cursor and gives the new cursor, or a record
\* with the value returned and the new cursor.

\* skip_whitespace(): the cursor after the run of whitespace at i.
RECURSIVE skip_whitespace(_, _)
skip_whitespace(s, i) ==
  IF i < Len(s) /\ isspace(s[i + 1]) THEN skip_whitespace(s, i + 1) ELSE i

\* ScanString with a backslash taken as any other character.
RECURSIVE ScanStringNoEscape(_, _)
ScanStringNoEscape(s, i) ==
  IF i < Len(s) /\ s[i + 1] # "\""
  THEN ScanStringNoEscape(s, i + 1) ELSE i

\* The loop of parse_string: to the first quote that no backslash pair
\* covers, or past the end.
RECURSIVE ScanString(_, _)
ScanString(s, i) ==
  IF i < Len(s) /\ s[i + 1] # "\""
  THEN IF s[i + 1] = "\\" THEN ScanString(s, i + 2) ELSE ScanString(s, i + 1)
  ELSE i

\* parse_string(), called with the cursor on the opening quote.
parse_string(s, i) ==
  LET start == i + 1
      stop == ScanString(s, start)
  IN [val |-> PyStr(Slice(s, start, stop)), idx |-> stop + 1]

\* The loop of parse_number: over digits and dots, any number of either.
RECURSIVE ScanNumber(_, _)
ScanNumber(s, i) ==
  IF i < Len(s) /\ (isdigit(s[i + 1]) \/ s[i + 1] = ".")
  THEN ScanNumber(s, i + 1) ELSE i

\* The digits of a text as a natural number, dots skipped.
RECURSIVE DigitsValue(_)
DigitsValue(w) ==
  IF w = <<>> THEN 0
  ELSE IF w[Len(w)] = "." THEN DigitsValue(SubSeq(w, 1, Len(w) - 1))
  ELSE 10 * DigitsValue(SubSeq(w, 1, Len(w) - 1)) + DigitVal(w[Len(w)])

Count(w, ch) == Cardinality({i \in 1..Len(w) : w[i] = ch})

\* The digits after the dot of an unsigned text with one dot.
FracDigits(w) == Len(w) - (CHOOSE i \in 1..Len(w) : w[i] = ".")

\* m / 10^e without the trailing zeros of its fraction.
RECURSIVE Normalise(_, _)
Normalise(m, e) ==
  IF e > 0 /\ m % 10 = 0 THEN Normalise(m \div 10, e - 1) ELSE <<m, e>>

\* ToNumber without the is_integer() test: every number stays a float.
ToNumberNoIntegerTest(w) ==
  LET neg == w # <<>> /\ w[1] = "-"
      u == IF neg THEN Tail(w) ELSE w
      dots == Count(u, ".")
  IN IF dots > 1 \/ Len(u) - dots = 0 THEN PyInt(0)
     ELSE LET e == IF dots = 1 THEN FracDigits(u) ELSE 0
              m == DigitsValue(u)
          IN PyFloat(IF neg THEN 0 - m ELSE m, e)

\* ToNumber with None where float() raises ValueError.
ToNumberNoneOnError(w) ==
  LET neg == w # <<>> /\ w[1] = "-"
      u == IF neg THEN Tail(w) ELSE w
      dots == Count(u, ".")
  IN IF dots > 1 \/ Len(u) - dots = 0 THEN PyNone
     ELSE LET me == Normalise(DigitsValue(u),
                              IF dots = 1 THEN FracDigits(u) ELSE 0)
              m == IF neg THEN 0 - me[1] ELSE me[1]
          IN IF me[2] = 0 THEN PyInt(m) ELSE PyFloat(m, me[2])

\* float(w) followed by the is_integer() test, for w an optional "-" and
\* then digits and dots: float() takes it when it has one dot at most and a
\* digit, and raises ValueError otherwise, which parse_number turns into 0.
ToNumber(w) ==
  LET neg == w # <<>> /\ w[1] = "-"
      u == IF neg THEN Tail(w) ELSE w
      dots == Count(u, ".")
  IN IF dots > 1 \/ Len(u) - dots = 0 THEN PyInt(0)
     ELSE LET me == Normalise(DigitsValue(u),
                              IF dots = 1 THEN FracDigits(u) ELSE 0)
              m == IF neg THEN 0 - me[1] ELSE me[1]
          IN IF me[2] = 0 THEN PyInt(m) ELSE PyFloat(m, me[2])

\* parse_number(), called with the cursor on a character of the text.
parse_number(s, i) ==
  LET j == IF s[i + 1] = "-" THEN i + 1 ELSE i
      stop == ScanNumber(s, j)
  IN [val |-> ToNumber(Slice(s, i, stop)), idx |-> stop]

\* The cursor after the run of identifier characters at i.
RECURSIVE ScanWord(_, _)
ScanWord(s, i) ==
  IF i < Len(s) /\ isword(s[i + 1]) THEN ScanWord(s, i + 1) ELSE i

\* ------------------------------------------------- comments, search

\* The offset of the next line break at or after i, or the end of the text.
RECURSIVE EndOfLine(_, _)
EndOfLine(s, i) ==
  IF i < Len(s) /\ s[i + 1] # "\n" THEN EndOfLine(s, i + 1) ELSE Min(i, Len(s))

\* re.sub(r'--.*', '', s) from offset i on: every "--" goes with the rest
\* of its line, wherever it stands.
RECURSIVE StripFrom(_, _)
StripFrom(s, i) ==
  IF i >= Len(s) THEN <<>>
  ELSE LET at == {j \in i..(Len(s) - 2) : HasAt(s, j, <<"-", "-">>)}
       IN IF at = {} THEN Slice(s, i, Len(s))
          ELSE LET j == CHOOSE k \in at : \A l \in at : k <= l
               IN Slice(s, i, j) \o StripFrom(s, EndOfLine(s, j + 2))

StripComments(s) == StripFrom(s, 0)

\* MatchAt for the pattern (\w+)\s*= without the brace.
MatchAtNoBrace(s, p) ==
  /\ p < Len(s) /\ isword(s[p + 1])
  /\ LET r == skip_whitespace(s, ScanWord(s, p))
     IN r < Len(s) /\ s[r + 1] = "="

\* Whether (\w+)\s*=\s*\{ matches at offset p.
MatchAt(s, p) ==
  /\ p < Len(s) /\ isword(s[p + 1])
  /\ LET r == skip_whitespace(s, ScanWord(s, p))
     IN /\ r < Len(s) /\ s[r + 1] = "="
        /\ LET u == skip_whitespace(s, r + 1)
           IN u < Len(s) /\ s[u + 1] = "{"

HasMatch(s) == \E p \in 0..(Len(s) - 1) : MatchAt(s, p)

\* MatchStart taking the last match in place of the first.
MatchStartLast(s) ==
  CHOOSE p \in 0..(Len(s) - 1) :
    MatchAt(s, p) /\ \A q \in (p + 1)..(Len(s) - 1) : ~MatchAt(s, q)

\* match.start() of re.search: the leftmost offset where it matches.
MatchStart(s) ==
  CHOOSE p \in 0..(Len(s) - 1) :
    MatchAt(s, p) /\ \A q \in 0..(p - 1) : ~MatchAt(s, q)

\* match.group(1)
MatchName(s) == Slice(s, MatchStart(s), ScanWord(s, MatchStart(s)))

\* ------------------------------------------------------ one call
\* The state of one parse_lua_table call: the stripped text and the cursor
\* (the closure's lua_string and idx), the parse_object activations that
\* are open (stack, innermost last), the value the last parse_value
\* returned (ret), match.group(1) (name) and the call's outcome (out).
\* pc: "call" (not started), "value" (entering parse_value), "loop" (at
\* the head of parse_object's while loop), "return" (parse_value has
\* returned to its caller), "done" (returned out), "raised" (IndexError).

\* The locals of parse_object as it starts; head (history) is where the
\* cursor was when the pass of the loop under way began.
NewFrame ==
  [obj |-> <<>>, is_array |-> TRUE, array_idx |-> 1, key |-> PyNone,
   head |-> -1]

Top(m) == m.stack[Len(m.stack)]

Pop(m) == SubSeq(m.stack, 1, Len(m.stack) - 1)

SetTop(m, f) == [m.stack EXCEPT ![Len(m.stack)] = f]

Raise(m) == [m EXCEPT !.pc = "raised"]

\* parse_value returns v with the cursor at i.
Return(m, v, i) == [m EXCEPT !.ret = v, !.idx = i, !.pc = "return"]

\* parse_lua_table up to its call of parse_value: the comments stripped,
\* the first assignment searched, the cursor put after its "=".
StartM(a) ==
  LET s == StripComments(a)
      m0 == [lua_string |-> s, idx |-> 0, pc |-> "done", stack |-> <<>>,
             ret |-> PyNone, name |-> <<>>, out |-> EmptyDict]
  IN IF ~HasMatch(s) THEN m0
     ELSE LET nm == MatchName(s)
              i == skip_whitespace(s, MatchStart(s) + Len(nm))
          IN IF i >= Len(s) THEN Raise([m0 EXCEPT !.idx = i])
             ELSE IF s[i + 1] = "="
             THEN [m0 EXCEPT !.idx = i + 1, !.name = nm, !.pc = "value"]
             ELSE [m0 EXCEPT !.idx = i]

\* parse_value: a table opens a parse_object activation, anything else is
\* read and returned at once.
ParseValueM(m) ==
  LET s == m.lua_string
      i == skip_whitespace(s, m.idx)
  IN IF i >= Len(s) THEN Return(m, PyNone, i)
     ELSE IF s[i + 1] = "{"
     THEN [m EXCEPT !.idx = i + 1, !.stack = Append(m.stack, NewFrame),
                    !.pc = "loop"]
     ELSE IF s[i + 1] = "\""
     THEN LET r == parse_string(s, i) IN Return(m, r.val, r.idx)
     ELSE IF isdigit(s[i + 1]) \/ s[i + 1] = "-"
     THEN LET r == parse_number(s, i) IN Return(m, r.val, r.idx)
     ELSE IF HasAt(s, i, <<"t", "r", "u", "e">>)
     THEN Return(m, PyBool(TRUE), i + 4)
     ELSE IF HasAt(s, i, <<"f", "a", "l", "s", "e">>)
     THEN Return(m, PyBool(FALSE), i + 5)
     ELSE IF HasAt(s, i, <<"n", "i", "l">>)
     THEN Return(m, PyNone, i + 3)
     ELSE LET j == ScanWord(s, i) IN Return(m, PyStr(Slice(s, i, j)), j)

\* Which way one pass of parse_object's while loop goes: "end" (the loop
\* condition fails), "close" (a closing brace), "eof" (only whitespace was
\* left), "bracket", "name" or "item" (the three kinds of key).
LoopCase(m) ==
  LET s == m.lua_string
      i == skip_whitespace(s, m.idx)
  IN IF m.idx >= Len(s) THEN "end"
     ELSE IF i >= Len(s) THEN "eof"
     ELSE IF s[i + 1] = "}" THEN "close"
     ELSE IF s[i + 1] = "[" THEN "bracket"
     ELSE IF isalpha(s[i + 1]) \/ s[i + 1] = "_" THEN "name"
     ELSE "item"

\* What parse_object returns at a closing brace.
CloseValue(f) ==
  IF f.is_array /\ f.obj # <<>> THEN PyList(Values(f.obj)) ELSE PyDict(f.obj)

\* The "[key] =" branch, the cursor i on the "[".
BracketKeyM(m, i) ==
  LET s == m.lua_string
      i1 == skip_whitespace(s, i + 1)
  IN IF i1 >= Len(s) THEN Raise(m)
     ELSE LET k == IF s[i1 + 1] = "\"" THEN parse_string(s, i1)
                   ELSE parse_number(s, i1)
              i2 == skip_whitespace(s, k.idx)
          IN IF i2 >= Len(s) THEN Raise(m)
             ELSE LET i3 == skip_whitespace(s, IF s[i2 + 1] = "]" THEN i2 + 1
                                               ELSE i2)
                  IN IF i3 >= Len(s) THEN Raise(m)
                     ELSE [m EXCEPT
                             !.stack = SetTop(m, [Top(m) EXCEPT
                                                    !.is_array = FALSE,
                                                    !.key = k.val]),
                             !.idx = IF s[i3 + 1] = "=" THEN i3 + 1 ELSE i3,
                             !.pc = "value"]

\* The "name =" branch, the cursor i on the first character of the name.
NameKeyM(m, i) ==
  LET s == m.lua_string
      j == ScanWord(s, i)
      j1 == skip_whitespace(s, j)
  IN IF j1 >= Len(s) THEN Raise(m)
     ELSE [m EXCEPT
             !.stack = SetTop(m, [Top(m) EXCEPT !.is_array = FALSE,
                                                !.key = PyStr(Slice(s, i, j))]),
             !.idx = IF s[j1 + 1] = "=" THEN j1 + 1 ELSE j1,
             !.pc = "value"]

\* ArrayItemM without array_idx += 1.
ArrayItemNoIncrement(m, i) ==
  [m EXCEPT
     !.stack = SetTop(m, [Top(m) EXCEPT !.key = PyInt(Top(m).array_idx)]),
     !.idx = i,
     !.pc = "value"]

\* The branch without a key: the next positional slot.
ArrayItemM(m, i) ==
  [m EXCEPT
     !.stack = SetTop(m, [Top(m) EXCEPT !.key = PyInt(Top(m).array_idx),
                                        !.array_idx = Top(m).array_idx + 1]),
     !.idx = i,
     !.pc = "value"]

\* One pass of parse_object's while loop, to the return or to the call of
\* parse_value for the entry's value.
ParseObjectM(m) ==
  LET s == m.lua_string
      i == skip_whitespace(s, m.idx)
      way == LoopCase(m)
      h == [m EXCEPT !.stack = SetTop(m, [Top(m) EXCEPT !.head = m.idx])]
  IN CASE way = "end" ->
            [m EXCEPT !.ret = PyDict(Top(m).obj), !.stack = Pop(m),
                      !.pc = "return"]
       [] way = "close" ->
            [m EXCEPT !.ret = CloseValue(Top(m)), !.stack = Pop(m),
                      !.idx = i + 1, !.pc = "return"]
       [] way = "eof" -> Raise([m EXCEPT !.idx = i])
       [] way = "bracket" -> BracketKeyM(h, i)
       [] way = "name" -> NameKeyM(h, i)
       [] way = "item" -> ArrayItemM(h, i)

\* StoreM with the comma as the only separator.
StoreCommaOnly(m) ==
  LET s == m.lua_string
      f == Top(m)
      i == skip_whitespace(s, m.idx)
  IN [m EXCEPT
        !.stack = SetTop(m, [f EXCEPT !.obj = SetItem(f.obj, f.key, m.ret)]),
        !.idx = IF i < Len(s) /\ s[i + 1] = "," THEN i + 1 ELSE i,
        !.pc = "loop"]

\* obj[key] = val, then the separator after the entry.
StoreM(m) ==
  LET s == m.lua_string
      f == Top(m)
      i == skip_whitespace(s, m.idx)
  IN [m EXCEPT
        !.stack = SetTop(m, [f EXCEPT !.obj = SetItem(f.obj, f.key, m.ret)]),
        !.idx = IF i < Len(s) /\ s[i + 1] \in {",", ";"} THEN i + 1 ELSE i,
        !.pc = "loop"]

\* return {match.group(1): parse_value()}
FinishM(m) ==
  [m EXCEPT !.out = PyDict(<<<<PyStr(m.name), m.ret>>>>), !.pc = "done"]

\* The model follows a table-body loop for MaxSlots positional entries.
Capped(m) ==
  m.pc = "loop" /\ LoopCase(m) = "item" /\ Top(m).array_idx > MaxSlots

Ended(m) == m.pc \in {"done", "raised"}

StepM(m) ==
  CASE m.pc = "value" -> ParseValueM(m)
    [] m.pc = "loop" -> ParseObjectM(m)
    [] m.pc = "return" -> IF m.stack = <<>> THEN FinishM(m) ELSE StoreM(m)

\* A call run alone from m to its end.
RECURSIVE Run(_)
Run(m) == IF Ended(m) \/ Capped(m) THEN m ELSE Run(StepM(m))

\* parse_lua_table(a) run alone.
Parse(a) == Run(StartM(a))

\* ----------------------------------------------------------- inputs
\* The texts the calls are given.  A generated text comes with the
\* description it was written from (gen), so that a property can speak of
\* the table's entries and not only of its characters.

\* One entry of a table literal: kind "pos" (a value alone), "name"
\* (name = value) or "brk" ([key] = value); key is the key's text, txt the
\* value's text, and keyval and val are the Lua values they denote.
EntryKinds ==
  { [kind |-> "pos", key |-> <<>>, keyval |-> PyNone,
     txt |-> <<"1">>, val |-> PyInt(1)],
    [kind |-> "pos", key |-> <<>>, keyval |-> PyNone,
     txt |-> <<"3", ".", "5">>, val |-> PyFloat(35, 1)],
    [kind |-> "pos", key |-> <<>>, keyval |-> PyNone,
     txt |-> <<"\"", "x", "\"">>, val |-> PyStr(<<"x">>)],
    [kind |-> "pos", key |-> <<>>, keyval |-> PyNone,
     txt |-> <<"\"", "a", "-", "-", "b", "\"">>,
     val |-> PyStr(<<"a", "-", "-", "b">>)],
    [kind |-> "pos", key |-> <<>>, keyval |-> PyNone,
     txt |-> <<"t", "r", "u", "e">>, val |-> PyBool(TRUE)],
    [kind |-> "pos", key |-> <<>>, keyval |-> PyNone,
     txt |-> <<"f", "a", "l", "s", "e">>, val |-> PyBool(FALSE)],
    [kind |-> "pos", key |-> <<>>, keyval |-> PyNone,
     txt |-> <<"{", "7", "}">>, val |-> PyList(<<PyInt(7)>>)],
    [kind |-> "name", key |-> <<"a">>, keyval |-> PyStr(<<"a">>),
     txt |-> <<"2">>, val |-> PyInt(2)],
    [kind |-> "brk", key |-> <<"1", "0">>, keyval |-> PyInt(10),
     txt |-> <<"\"", "x", "\"">>, val |-> PyStr(<<"x">>)],
    [kind |-> "brk", key |-> <<"1">>, keyval |-> PyInt(1),
     txt |-> <<"5">>, val |-> PyInt(5)] }

Separators == {<<",">>, <<";">>, <<",", " ">>}

EntryText(e) ==
  CASE e.kind = "pos" -> e.txt
    [] e.kind = "name" -> e.key \o <<"=">> \o e.txt
    [] e.kind = "brk" -> <<"[">> \o e.key \o <<"]", "=">> \o e.txt

\* The entries joined by the separator.
RECURSIVE Join(_, _)
Join(es, sep) ==
  IF es = <<>> THEN <<>>
  ELSE IF Len(es) = 1 THEN EntryText(es[1])
  ELSE EntryText(es[1]) \o sep \o Join(Tail(es), sep)

\* The table literal { e1, e2, ... }, with a trailing separator or not.
TableText(es, sep, trail) ==
  <<"{">> \o Join(es, sep) \o (IF trail /\ es # <<>> THEN sep ELSE <<>>)
    \o <<"}">>

\* name = { ... }
AssignText(name, es, sep, trail) ==
  name \o <<" ", "=", " ">> \o TableText(es, sep, trail)

EntrySeqs == UNION {[1..k -> EntryKinds] : k \in 0..MaxEntries}

\* Whole assignments, under every separator.
TableGens ==
  [fam : {"table"}, es : EntrySeqs, sep : Separators, trail : BOOLEAN]

\* Assignments cut short, as a file read while it is written: the first
\* cut characters of the text.
CutGens ==
  UNION { [fam : {"cut"}, es : {es},
           cut : 0..(Len(AssignText(<<"t">>, es, <<",", " ">>, FALSE)) - 1)]
          : es \in EntrySeqs }

RawAlphabet == {"t", "=", "{", " ", "1", "-", "\n"}

\* Every text of MaxRaw characters at most over RawAlphabet.
RawGens ==
  [fam : {"raw"}, txt : UNION {[1..k -> RawAlphabet] : k \in 0..MaxRaw}]

\* An assignment with text before it and after it.  The text before holds
\* no assignment of a table and ends outside a name.
PreTexts ==
  { <<>>, <<"x", " ", "=", " ", "5", " ">>, <<"-", "-", " ", "c", "\n">>,
    <<"y", " ">>, <<"=", " ", "{", " ">>, <<"}", "\n">> }

PostTexts ==
  { <<>>, <<"}">>, <<" ", "y", " ", "=", " ", "{", "2", "}">>,
    <<" ", "-", "-", " ", "z">>, <<"\n", "3", ",">> }

WrapNames == {<<"t">>, <<"a", "b", "_", "1">>}

\* The tables wrapped: one entry at most, and no "--" inside.
WrapTables ==
  {es \in EntrySeqs :
     Len(es) <= 1 /\ \A i \in 1..Len(es) : Count(es[i].txt, "-") = 0}

WrapGens ==
  [fam : {"wrap"}, pre : PreTexts, name : WrapNames, es : WrapTables,
   post : PostTexts]

\* The decimal numerals: a sign or none, digits, and a dot with digits
\* after it or none.
DigitSeqs(D, lo) == UNION {[1..k -> D] : k \in lo..MaxDigits}

NumGens ==
  [fam : {"num"}, neg : BOOLEAN, ip : DigitSeqs({"0", "3", "7"}, 1),
   fp : DigitSeqs({"0", "5"}, 0)]

NumeralText(g) ==
  (IF g.neg THEN <<"-">> ELSE <<>>) \o g.ip
    \o (IF g.fp = <<>> THEN <<>> ELSE <<".">> \o g.fp)

\* Tables of positive integers, all positional.
IntLiterals == {<<"1">>, <<"2">>, <<"3", "0">>, <<"0", "0", "7">>}

IntsGens ==
  [fam : {"ints"}, lits : UNION {[1..k -> IntLiterals] : k \in 1..MaxDigits},
   sep : Separators, trail : BOOLEAN]

\* Two calls at once, the texts of both.
PairTexts ==
  { <<"t", "=", "{", "1", ",", "a", "=", "2", "}">>,
    <<"u", " ", "=", " ", "{", "\"", "x", "\"", "}">>,
    <<"t", "=", "{", "[">> }

PairGens == [fam : {"pair"}, a : PairTexts, b : PairTexts]

StrAlphabet == {"a", "b", "\\", "\""}

\* A table of one string literal: an opening quote, up to MaxStr characters
\* of StrAlphabet, a closing quote.
StrGens ==
  [fam : {"str"}, body : UNION {[1..k -> StrAlphabet] : k \in 0..MaxStr}]

\* ------------------------------------------------------ ingestion
\* ingest_all of src/ingest_sql.py and what it hands to the parser.

\* WTF_PATH, line 8.
WTF_PATH ==
  <<"/", "A", "p", "p", "l", "i", "c", "a", "t", "i", "o", "n", "s", "/",
    "W", "o", "r", "l", "d", " ", "o", "f", " ", "W", "a", "r", "c", "r",
    "a", "f", "t", "/", "_", "r", "e", "t", "a", "i", "l", "_", "/", "W",
    "T", "F", "/", "A", "c", "c", "o", "u", "n", "t", "/", "N", "I", "G",
    "H", "T", "H", "W", "K", "7", "7", "/", "S", "a", "v", "e", "d", "V",
    "a", "r", "i", "a", "b", "l", "e", "s">>

\* The SavedVariables files of lines 110, 119 and 128, in that order.
FileNames ==
  << <<"D", "a", "t", "a", "S", "t", "o", "r", "e", "_", "R", "e", "p",
       "u", "t", "a", "t", "i", "o", "n", "s", ".", "l", "u", "a">>,
     <<"S", "a", "v", "e", "d", "I", "n", "s", "t", "a", "n", "c", "e",
       "s", ".", "l", "u", "a">>,
     <<"D", "e", "e", "p", "P", "o", "c", "k", "e", "t", "s", ".", "l",
       "u", "a">> >>

\* os.path.join(WTF_PATH, name) for file i.
FilePath(i) == WTF_PATH \o <<"/">> \o FileNames[i]

\* d.get(key, {}) on a dict.
GetOrEmpty(d, key) ==
  IF key \in Keys(d.kv) THEN GetItem(d.kv, key) ELSE EmptyDict

\* What ingest_reputations reads from data, lines 145-146; an error when
\* data or data["global"] has no get().
CharactersOf(data) ==
  IF data.t # "dict" THEN [t |-> "error"]
  ELSE LET db_global == GetOrEmpty(data, PyStr(<<"g", "l", "o", "b", "a", "l">>))
       IN IF db_global.t # "dict" THEN [t |-> "error"]
          ELSE GetOrEmpty(db_global, PyStr(<<"C", "h", "a", "r", "a", "c", "t", "e", "r", "s">>))

\* What a reputations file may hold.
FileContents ==
  { <<"R", " ", "=", " ", "{", " ", "g", "l", "o", "b", "a", "l", " ",
      "=", " ", "{", " ", "C", "h", "a", "r", "a", "c", "t", "e", "r",
      "s", " ", "=", " ", "{", " ", "a", " ", "=", " ", "1", " ", "}",
      " ", "}", " ", "}">>,
    <<"R", "=", "{", "g", "l", "o", "b", "a", "l", "=", "{", "C", "h",
      "a", "r", "a", "c", "t", "e", "r", "s", "=", "{", "a", "=", "{",
      "F", "a", "c", "t", "i", "o", "n", "s", "=", "{", "7", "}", "}",
      "}", "}", "}">> }

\* Which of the three files exist, and the content of each.
IngestGens == [fam : {"ingest"}, exists : SUBSET (1..3), content : FileContents]

\* Texts that are no numbers though they start as one.
BadNumerals ==
  {<<"1", ".", "2", ".", "3">>, <<"1", ".", ".", "2">>, <<"3", ".", "5", ".">>,
   <<"-">>, <<"-", ".">>, <<"-", "1", ".", "2", ".", "3">>}

\* What may follow the first value of a table.
Tails ==
  {<<"}">>, <<",", "4", "}">>, <<>>, <<" ", "4", "}">>, <<"a", "}">>}

\* A table that starts with a token, and what follows the token.
TokGens == [fam : {"tok"}, tok : BadNumerals, tail : Tails]

Gens ==
  TableGens \cup CutGens \cup RawGens \cup WrapGens \cup NumGens
    \cup IntsGens \cup PairGens \cup TokGens \cup StrGens \cup IngestGens

\* The text a description stands for.
GenText(g) ==
  CASE g.fam = "table" -> AssignText(<<"t">>, g.es, g.sep, g.trail)
    [] g.fam = "cut" ->
         SubSeq(AssignText(<<"t">>, g.es, <<",", " ">>, FALSE), 1, g.cut)
    [] g.fam = "raw" -> g.txt
    [] g.fam = "wrap" ->
         g.pre \o AssignText(g.name, g.es, <<",">>, FALSE) \o g.post
    [] g.fam = "num" -> <<"t", "=", "{">> \o NumeralText(g) \o <<"}">>
    [] g.fam = "ints" ->
         <<"t", " ", "=", " ", "{">> \o Concat([i \in 1..Len(g.lits) |->
             g.lits[i] \o (IF i < Len(g.lits) \/ g.trail THEN g.sep
                           ELSE <<>>)]) \o <<"}">>
    [] g.fam = "pair" -> g.a
    [] g.fam = "tok" -> <<"t", "=", "{">> \o g.tok \o g.tail
    [] g.fam = "str" -> <<"t", "=", "{", "\"">> \o g.body \o <<"\"", "}">>
    [] g.fam = "ingest" -> <<>>

\* ------------------------------------------------- the quest resolver
\* solve_dependency of src/server.py.  The collaborator is the database:
\* deps[q] is the rows of codex.quest_dependencies for quest q, in the
\* order the query returns them, and titles[q] the title of q in
\* codex.quest_definitions, for the quests that have a row there.

\* The depth past which an invocation gives up.
MaxDepth == 10

\* Quests in the longest generated chain.
MaxChain == 14

\* Prerequisites of one quest in a generated graph.
MaxPrereqs == 2

\* The tuple (quest id, title).
PyPair(q, title) == [t |-> "tuple", id |-> q, title |-> title]

\* A quest_definitions row is missing.
Unknown == "Unknown Quest"

\* fetchall() of the prerequisite query.
RowsOf(r, q) == IF q \in DOMAIN r.deps THEN r.deps[q] ELSE <<>>

\* title_row[0] if title_row else "Unknown Quest".
TitleOf(r, q) == IF q \in DOMAIN r.titles THEN r.titles[q] ELSE Unknown

\* The guard with the quest at depth 10 given up as well.
TooDeepInclusive(d) == d >= MaxDepth

\* The guard one level late.
TooDeepLate(d) == d > MaxDepth + 1

\* depth > 10.
TooDeep(d) == d > MaxDepth

\* The depth handed down two higher.
NextDepthByTwo(d) == d + 2

\* depth+1.
NextDepth(d) == d + 1

\* An invocation as it starts: its arguments, and what it has done so far
\* (checked: quest_id was looked up in completed_ids; lookups: the queries
\* it has sent; seen: the rows its loop has come to; why: how it returned;
\* sub: how the invocation it made returned).
NewCall(q, d) ==
  [quest_id |-> q, depth |-> d, rows |-> <<>>, seen |-> 0, parent_id |-> 0,
   checked |-> FALSE, lookups |-> 0, failed |-> FALSE, why |-> "running",
   sub |-> "none"]

\* The innermost invocation becomes f.
WithTop(r, f) == [r EXCEPT !.stack = SetTop(r, f)]

\* The innermost invocation returns v.
Leave(r, v, why) ==
  [WithTop(r, [Top(r) EXCEPT !.why = why]) EXCEPT !.ret = v, !.pc = "return"]

\* The innermost invocation sends a query.
Query(r) == WithTop(r, [Top(r) EXCEPT !.lookups = @ + 1])

\* solve_dependency(quest_id, completed_ids, depth) is called from outside
\* on the database (deps, titles).
Invoke(deps, titles, quest_id, completed_ids, depth) ==
  [deps |-> deps, titles |-> titles, completed_ids |-> completed_ids,
   pc |-> "enter", stack |-> <<NewCall(quest_id, depth)>>, ret |-> PyNone,
   calls |-> 1, out |-> PyNone]

\* The handler with the exception let through.
ExceptReraise(r) == [r EXCEPT !.pc = "raised"]

\* except Exception: the invocation prints and returns None.
ExceptM(r) == Leave(WithTop(r, [Top(r) EXCEPT !.failed = TRUE]), PyNone, "failed")

\* The entry with every quest it is asked about noted as met.
EnterMarksVisited(r) ==
  LET f == Top(r)
  IN IF TooDeep(f.depth) THEN Leave(r, PyNone, "guard")
     ELSE IF f.quest_id \in r.completed_ids
          THEN Leave(WithTop(r, [f EXCEPT !.checked = TRUE]), PyNone,
                     "completed")
          ELSE [WithTop(r, [f EXCEPT !.checked = TRUE])
                  EXCEPT !.pc = "fetch",
                         !.completed_ids = @ \cup {f.quest_id}]

\* The entry without the test of completed_ids.
EnterNoCompletedTest(r) ==
  IF TooDeep(Top(r).depth) THEN Leave(r, PyNone, "guard")
  ELSE [r EXCEPT !.pc = "fetch"]

\* The two tests an invocation starts with.
EnterM(r) ==
  LET f == Top(r)
      s == WithTop(r, [f EXCEPT !.checked = TRUE])
  IN IF TooDeep(f.depth) THEN Leave(r, PyNone, "guard")
     ELSE IF f.quest_id \in r.completed_ids THEN Leave(s, PyNone, "completed")
          ELSE [s EXCEPT !.pc = "fetch"]

\* The prerequisite query; ok: the collaborator answered.
FetchM(r, ok) ==
  IF ok THEN [WithTop(r, [Top(Query(r)) EXCEPT
                            !.rows = RowsOf(r, Top(r).quest_id)])
                EXCEPT !.pc = "loop"]
  ELSE ExceptM(Query(r))

\* The last row that is not in completed_ids, 0 if there is none.
FirstUnmetLast(rows, completed_ids) ==
  IF \E i \in 1..Len(rows) : rows[i] \notin completed_ids
  THEN CHOOSE i \in 1..Len(rows) :
         /\ rows[i] \notin completed_ids
         /\ \A j \in (i + 1)..Len(rows) : rows[j] \in completed_ids
  ELSE 0

\* FirstUnmet without the test of completed_ids: the first row.
FirstRow(rows, completed_ids) == IF rows # <<>> THEN 1 ELSE 0

\* The row at which the loop stops: the first one that is not in
\* completed_ids, 0 if there is none.
FirstUnmet(rows, completed_ids) ==
  IF \E i \in 1..Len(rows) : rows[i] \notin completed_ids
  THEN CHOOSE i \in 1..Len(rows) :
         /\ rows[i] \notin completed_ids
         /\ \A j \in 1..(i - 1) : rows[j] \in completed_ids
  ELSE 0

\* The loop over the rows, up to the recursive call or to its end.
LoopM(r) ==
  LET f == Top(r)
      i == FirstUnmet(f.rows, r.completed_ids)
  IN IF i = 0
     THEN [WithTop(r, [f EXCEPT !.seen = Len(f.rows)])
             EXCEPT !.pc = "own_title"]
     ELSE [r EXCEPT
             !.stack = Append(SetTop(r, [f EXCEPT !.seen = i,
                                                  !.parent_id = f.rows[i]]),
                              NewCall(f.rows[i], NextDepth(f.depth))),
             !.pc = "enter",
             !.calls = @ + 1]

\* The caller of the innermost invocation, running again.
Resumed(r) ==
  [r EXCEPT !.stack = [Pop(r) EXCEPT ![Len(r.stack) - 1].sub = Top(r).why]]

\* ResumeM with whatever the recursive call returned handed on, None too.
ResumePassesNone(r) == Leave(Resumed(r), r.ret, "deeper")

\* ResumeM with the caller reporting itself when the invocation it made
\* failed.
ResumeOwnOnFailure(r) ==
  IF Top(r).failed THEN [Resumed(r) EXCEPT !.pc = "own_title"]
  ELSE IF r.ret # PyNone THEN Leave(Resumed(r), r.ret, "deeper")
  ELSE [Resumed(r) EXCEPT !.pc = "parent_title"]

\* The recursive call has returned missing_prereq to its caller.
ResumeM(r) ==
  IF r.ret # PyNone THEN Leave(Resumed(r), r.ret, "deeper")
  ELSE [Resumed(r) EXCEPT !.pc = "parent_title"]

\* The title of the prerequisite is fetched and the prerequisite returned.
ParentTitleM(r, ok) ==
  IF ok THEN Leave(Query(r), PyPair(Top(r).parent_id,
                                    TitleOf(r, Top(r).parent_id)), "parent")
  ELSE ExceptM(Query(r))

\* The own title fetched, and no title.
OwnTitleNone(r, ok) == Leave(Query(r), PyNone, "own")

\* The title of the quest itself is fetched and the quest returned.
OwnTitleM(r, ok) ==
  IF ok THEN Leave(Query(r), PyPair(Top(r).quest_id,
                                    TitleOf(r, Top(r).quest_id)), "own")
  ELSE ExceptM(Query(r))

\* The outermost invocation returns to who called it.
AnswerM(r) == [r EXCEPT !.out = r.ret, !.pc = "done", !.stack = Pop(r)]

\* One step when every lookup is answered.
StepR(r) ==
  CASE r.pc = "enter" -> EnterM(r)
    [] r.pc = "fetch" -> FetchM(r, TRUE)
    [] r.pc = "loop" -> LoopM(r)
    [] r.pc = "parent_title" -> ParentTitleM(r, TRUE)
    [] r.pc = "own_title" -> OwnTitleM(r, TRUE)
    [] r.pc = "return" -> IF Len(r.stack) = 1 THEN AnswerM(r) ELSE ResumeM(r)

RECURSIVE RunR(_)
RunR(r) == IF r.pc \in {"done", "raised"} THEN r ELSE RunR(StepR(r))

\* solve_dependency(quest_id, completed_ids, depth) with a collaborator that
\* answers every lookup.
solve_dependency(deps, titles, quest_id, completed_ids, depth) ==
  RunR(Invoke(deps, titles, quest_id, completed_ids, depth)).out

\* ---------------------------------------------------- resolver inputs

Quests == {1, 2, 3}

\* The lists of at most n different quests of Q.
PrereqLists(Q, n) ==
  {s \in UNION {[1..k -> Q] : k \in 0..n} :
     \A i, j \in 1..Len(s) : s[i] = s[j] => i = j}

TitleText(q) == "Quest " \o ToString(q)

\* Every quest of Q has a title but quest 3.
TitlesOn(Q) == [q \in Q \ {3} |-> TitleText(q)]

\* The graphs on Quests in which a quest requires MaxPrereqs quests at
\* most, and quest 1, the one asked about, one more; with every set of
\* completed quests.
GraphGens ==
  {[fam |-> "graph", deps |-> d, titles |-> TitlesOn(Quests),
    completed |-> C, quest |-> 1, depth |-> 0, faults |-> FALSE] :
     d \in {e \in [Quests -> PrereqLists(Quests, MaxPrereqs + 1)] :
              \A q \in Quests \ {1} : Len(e[q]) <= MaxPrereqs},
     C \in SUBSET Quests}

\* Quest q requires quest q + 1, up to quest len, which requires nothing,
\* or quest 1 when the chain is closed to a cycle.
ChainDeps(len, cyclic) ==
  [q \in 1..len |-> IF q < len THEN <<q + 1>>
                    ELSE IF cyclic THEN <<1>> ELSE <<>>]

\* Chains and cycles from quest 1, with the last quest completed or none,
\* asked about at several depths, with a collaborator that may fail
\* (faults) or not.
ChainGens ==
  {[fam |-> "chain", len |-> n, cyclic |-> c, deps |-> ChainDeps(n, c),
    titles |-> TitlesOn(1..n), completed |-> IF met THEN {n} ELSE {},
    quest |-> 1, depth |-> d, faults |-> f] :
     n \in 1..MaxChain, c \in BOOLEAN, met \in BOOLEAN,
     d \in {0, 9, 11, 12}, f \in BOOLEAN}

ResolverGens == GraphGens \cup ChainGens

\* ------------------------------------------------------------ state

Calls == {1, 2}

VARIABLES
  gen,    \* the description the texts were written from
  arg,    \* arg[c]: the lua_string argument of call c
  cell,   \* the closure cells: the stripped lua_string and the cursor idx
  call,   \* call[c]: pc, stack, ret, name and out of call c
  overlap, \* history: a call has taken a step while another was under way
  res,     \* the solve_dependency call under way
  ingest   \* the ingest_all run under way

vars == <<gen, arg, cell, call, overlap, res, ingest>>

\* CellOf with lua_string and idx kept in one place for every call, as
\* module-level variables would be.
CellOfShared(c) == 1

\* The cell that holds the closure variables of call c: parse_lua_table
\* binds lua_string and idx anew at every call, and its nested functions
\* reach them by nonlocal.
CellOf(c) == c

\* Call c as one record.
M(c) ==
  [lua_string |-> cell[CellOf(c)].lua_string, idx |-> cell[CellOf(c)].idx,
   pc |-> call[c].pc, stack |-> call[c].stack, ret |-> call[c].ret,
   name |-> call[c].name, out |-> call[c].out]

\* Call c becomes m.
Put(c, m) ==
  /\ cell' = [cell EXCEPT ![CellOf(c)] =
                [lua_string |-> m.lua_string, idx |-> m.idx]]
  /\ call' = [call EXCEPT ![c] =
                [pc |-> m.pc, stack |-> m.stack, ret |-> m.ret,
                 name |-> m.name, out |-> m.out]]
  /\ overlap' = (overlap \/ \E d \in Calls \ {c} :
                               call[d].pc \notin {"idle", "call", "done",
                                                  "raised"})
  /\ UNCHANGED <<gen, arg, res, ingest>>

\* No solve_dependency call is under way.
NotInvoked ==
  [Invoke(<<>>, <<>>, 0, {}, 0) EXCEPT !.pc = "idle", !.stack = <<>>]

\* An ingest_all run: at is the file it has come to, parsing whether
\* parse_lua_table is running for it, data what the ingest_ function of
\* each file was handed (for the files in handed), characters what
\* ingest_reputations read from it.
IngestAt(pc0) ==
  [pc |-> pc0, at |-> 1, parsing |-> FALSE, handed |-> {},
   data |-> [i \in 1..3 |-> EmptyDict], characters |-> EmptyDict]

NotStarted(pc0) ==
  [pc |-> pc0, stack |-> <<>>, ret |-> PyNone, name |-> <<>>,
   out |-> EmptyDict]

Init ==
  /\ gen \in Gens
  /\ arg = [c \in Calls |->
              IF c = 1 THEN GenText(gen)
              ELSE IF gen.fam = "pair" THEN gen.b ELSE <<>>]
  /\ cell = [c \in Calls |-> [lua_string |-> <<>>, idx |-> 0]]
  /\ call = [c \in Calls |->
               NotStarted(IF gen.fam = "ingest" THEN "idle"
                          ELSE IF c = 1 \/ gen.fam = "pair" THEN "call"
                          ELSE "idle")]
  /\ overlap = FALSE
  /\ res = NotInvoked
  /\ ingest = IngestAt(IF gen.fam = "ingest" THEN "run" ELSE "idle")

\* parse_lua_table is called: lines 12-16 and 134-139.
Start(c) ==
  /\ call[c].pc = "call"
  /\ Put(c, StartM(arg[c]))

\* parse_value, lines 22-49.
ParseValue(c) ==
  /\ call[c].pc = "value"
  /\ Put(c, ParseValueM(M(c)))

\* One pass of the loop of parse_object, lines 86-121.
ParseObject(c) ==
  /\ call[c].pc = "loop"
  /\ ~Capped(M(c))
  /\ Put(c, ParseObjectM(M(c)))

\* The entry is stored and its separator skipped, lines 125-129.
Store(c) ==
  /\ call[c].pc = "return"
  /\ call[c].stack # <<>>
  /\ Put(c, StoreM(M(c)))

\* parse_lua_table returns, line 140.
Finish(c) ==
  /\ call[c].pc = "return"
  /\ call[c].stack = <<>>
  /\ Put(c, FinishM(M(c)))

\* The ingest_all run goes on to the file after this one.
NextFile(g) ==
  [g EXCEPT !.at = @ + 1, !.parsing = FALSE,
            !.pc = IF g.at = 3 THEN "done" ELSE "run"]

\* ingest_all tests whether its next file exists and calls the parser for
\* it, or skips it: lines 110-113, 119-122 and 128-131.
IngestCheck ==
  /\ ingest.pc = "run" /\ ~ingest.parsing
  /\ IF ingest.at \in gen.exists
     THEN /\ arg' = [arg EXCEPT ![1] = FilePath(ingest.at)]
          /\ call' = [call EXCEPT ![1] = NotStarted("call")]
          /\ ingest' = [ingest EXCEPT !.parsing = TRUE]
     ELSE /\ ingest' = NextFile(ingest)
          /\ UNCHANGED <<arg, call>>
  /\ UNCHANGED <<gen, cell, overlap, res>>

\* The parser has returned and its result is handed to the ingest_
\* function of the file (lines 113-114, 122-123, 131-132); an exception of
\* the parser leaves ingest_all.
IngestHand ==
  /\ ingest.pc = "run" /\ ingest.parsing
  /\ call[1].pc \in {"done", "raised"}
  /\ ingest' =
       IF call[1].pc = "raised" THEN [ingest EXCEPT !.pc = "raised"]
       ELSE [NextFile(ingest) EXCEPT
               !.handed = @ \cup {ingest.at},
               !.data[ingest.at] = call[1].out,
               !.characters = IF ingest.at = 1 THEN CharactersOf(call[1].out)
                              ELSE @]
  /\ call' = [call EXCEPT ![1] = NotStarted("idle")]
  /\ UNCHANGED <<gen, arg, cell, overlap, res>>

Next ==
  \/ \E c \in Calls :
       \/ Start(c)
       \/ ParseValue(c)
       \/ ParseObject(c)
       \/ Store(c)
       \/ Finish(c)
  \/ IngestCheck
  \/ IngestHand

Spec == Init /\ [][Next]_vars

\* ------------------------------------------- the resolver's behaviours

InitResolver ==
  /\ gen \in ResolverGens
  /\ arg = [c \in Calls |-> <<>>]
  /\ cell = [c \in Calls |-> [lua_string |-> <<>>, idx |-> 0]]
  /\ call = [c \in Calls |-> NotStarted("idle")]
  /\ overlap = FALSE
  /\ res = Invoke(gen.deps, gen.titles, gen.quest, gen.completed, gen.depth)
  /\ ingest = IngestAt("idle")

\* What a lookup may come to: the collaborator answers, or it fails.
Answers == IF gen.faults THEN BOOLEAN ELSE {TRUE}

\* The solve_dependency call becomes r.
PutR(r) == res' = r /\ UNCHANGED <<gen, arg, cell, call, overlap, ingest>>

\* Lines 647-651.
Enter == res.pc = "enter" /\ PutR(EnterM(res))

\* Lines 655-660.
Fetch == res.pc = "fetch" /\ \E ok \in Answers : PutR(FetchM(res, ok))

\* Lines 662-666.
Loop == res.pc = "loop" /\ PutR(LoopM(res))

\* Lines 666-668.
Resume == res.pc = "return" /\ Len(res.stack) > 1 /\ PutR(ResumeM(res))

\* Lines 672-678.
ParentTitle ==
  res.pc = "parent_title" /\ \E ok \in Answers : PutR(ParentTitleM(res, ok))

\* Lines 681-687.
OwnTitle ==
  res.pc = "own_title" /\ \E ok \in Answers : PutR(OwnTitleM(res, ok))

\* The call returns to the route that made it.
Answer == res.pc = "return" /\ Len(res.stack) = 1 /\ PutR(AnswerM(res))

NextResolver ==
  Enter \/ Fetch \/ Loop \/ Resume \/ ParentTitle \/ OwnTitle \/ Answer

SpecResolver == InitResolver /\ [][NextResolver]_vars

\* The interpreter runs a call that has a step to take.
SpecResolverFair == SpecResolver /\ WF_vars(NextResolver)

\* ----------------------------------------------------------- claims

Started(c) == call[c].pc \notin {"idle", "call"}

Done(c) == call[c].pc = "done"

Raised(c) == call[c].pc = "raised"

\* What a call has come to.
Outcome(m) ==
  IF m.pc = "done" THEN [st |-> "returned", val |-> m.out]
  ELSE IF m.pc = "raised" THEN [st |-> "raised"]
  ELSE [st |-> "running"]

\* The value under the one key of a call's result.
TableOf(out) == out.kv[1][2]

\* Two dashes in a row somewhere in the text.
HasDashes(s) == \E i \in 1..(Len(s) - 1) : s[i] = "-" /\ s[i + 1] = "-"

AllPositional(es) == \A i \in 1..Len(es) : es[i].kind = "pos"

\* The values the entries denote, in the order written.
EntryVals(es) == [i \in 1..Len(es) |-> es[i].val]

\* The positional entries among es, in the order written.
Positional(es) == SelectSeq(es, LAMBDA e : e.kind = "pos")

\* Whether the parsed table v holds value w at slot i: at index i of a
\* sequence, under the integer key i of a mapping.
AtSlot(v, i, w) ==
  IF v.t = "list" THEN i <= Len(v.xs) /\ v.xs[i] = w
  ELSE PyInt(i) \in Keys(v.kv) /\ GetItem(v.kv, PyInt(i)) = w

\* C1: parse_lua_table never raises; in particular it returns a value for
\* every prefix of a well-formed name = { ... } text.
C1_PrefixNeverRaises == gen.fam = "cut" => ~Raised(1)

\* C2: a string literal with "--" inside its quotes comes out whole, and
\* the table around it is parsed as if the string held no "--": a table of
\* positional strings and integers, one of the strings with "--" inside,
\* yields the sequence of exactly those values.
C2_DashesKeptInStrings ==
  ( /\ gen.fam = "table" /\ Done(1)
    /\ \A i \in 1..Len(gen.es) :
         gen.es[i].kind = "pos" /\ gen.es[i].val.t \in {"str", "int"}
    /\ \E i \in 1..Len(gen.es) : HasDashes(gen.es[i].txt) )
  => call[1].out = PyDict(<< <<PyStr(<<"t">>), PyList(EntryVals(gen.es))>> >>)

\* C3: a table body closed by its brace yields a sequence if and only if
\* it has an entry and all its entries are positional, and then the
\* sequence holds the entries' values in order, as many as there are
\* entries; it yields a mapping in every other case.
C3_SequenceIffAllPositional ==
  (gen.fam = "table" /\ ~HasDashes(arg[1]) /\ Done(1))
  => IF gen.es # <<>> /\ AllPositional(gen.es)
     THEN TableOf(call[1].out) = PyList(EntryVals(gen.es))
     ELSE TableOf(call[1].out).t = "dict"

\* C4: every entry without a key prefix is stored at the next positional
\* slot, whatever kind of value it is (number, string, table, true, false
\* or another bareword): in a table of positional and named entries, the
\* i-th positional entry is at slot i.
C4_PositionalAtNextSlot ==
  ( /\ gen.fam = "table" /\ ~HasDashes(arg[1]) /\ Done(1)
    /\ \A i \in 1..Len(gen.es) : gen.es[i].kind \in {"pos", "name"} )
  => \A i \in 1..Len(Positional(gen.es)) :
       AtSlot(TableOf(call[1].out), i, Positional(gen.es)[i].val)

\* C5: a table that mixes positional and named entries yields a mapping
\* that holds the i-th positional entry under the integer key i and each
\* named entry under its name, and nothing else.
C5_MixedTableIsMapping ==
  ( /\ gen.fam = "table" /\ ~HasDashes(arg[1]) /\ Done(1)
    /\ \E i \in 1..Len(gen.es) : gen.es[i].kind = "pos"
    /\ \E i \in 1..Len(gen.es) : gen.es[i].kind = "name"
    /\ \A i \in 1..Len(gen.es) : gen.es[i].kind \in {"pos", "name"} )
  => LET v == TableOf(call[1].out)
         pos == Positional(gen.es)
     IN /\ v.t = "dict"
        /\ \A i \in 1..Len(pos) : AtSlot(v, i, pos[i].val)
        /\ \A i \in 1..Len(gen.es) :
             gen.es[i].kind = "name" => gen.es[i].keyval \in Keys(v.kv)
        /\ Keys(v.kv) =
             {PyInt(i) : i \in 1..Len(pos)}
               \cup {gen.es[i].keyval :
                       i \in {j \in 1..Len(gen.es) : gen.es[j].kind = "name"}}

\* Whether the text holds identifier = { somewhere: a character of a name,
\* then whitespace or none, "=", whitespace or none, "{".
ContainsAssign(s) ==
  \E c \in 1..Len(s) :
    /\ s[c] = "="
    /\ \E b \in 1..(c - 1) :
         isword(s[b]) /\ \A k \in (b + 1)..(c - 1) : isspace(s[k])
    /\ \E d \in (c + 1)..Len(s) :
         s[d] = "{" /\ \A k \in (c + 1)..(d - 1) : isspace(s[k])

\* The stripped text call c works on.
Stripped(c) == cell[CellOf(c)].lua_string

\* C6: when the comment-stripped text holds no identifier = {, the call
\* returns the empty mapping and does not raise.
C6_NoAssignmentGivesEmpty ==
  \A c \in Calls :
    (Started(c) /\ ~ContainsAssign(Stripped(c)))
    => Done(c) /\ call[c].out = EmptyDict

\* A text with "=", "{" and a name in it, yet no assignment, has given {}.
C6_Witness ==
  /\ gen.fam = "raw" /\ Done(1) /\ call[1].out = EmptyDict
  /\ ~ContainsAssign(Stripped(1))
  /\ {"t", "=", "{"} \subseteq {arg[1][i] : i \in 1..Len(arg[1])}

\* C7: with an assignment in the text, the result has one key, the name of
\* the first assignment, and under it what the assignment's table parses
\* to on its own: the text before the assignment and the text after the
\* table's closing brace change nothing.
C7_FirstAssignmentAlone ==
  /\ \A c \in Calls :
       (Done(c) /\ ContainsAssign(Stripped(c)))
       => Len(call[c].out.kv) = 1 /\ call[c].out.kv[1][1].t = "str"
  /\ (gen.fam = "wrap" /\ Started(1))
     => /\ ~Raised(1)
        /\ Done(1) =>
             /\ Len(call[1].out.kv) = 1
             /\ call[1].out.kv[1][1] = PyStr(gen.name)
             /\ call[1].out =
                  Parse(AssignText(gen.name, gen.es, <<",">>, FALSE)).out

\* An assignment between a scalar assignment and a second table
\* assignment has been parsed.
C7_Witness ==
  /\ gen.fam = "wrap" /\ Done(1)
  /\ gen.pre = <<"x", " ", "=", " ", "5", " ">>
  /\ gen.post = <<" ", "y", " ", "=", " ", "{", "2", "}">>
  /\ gen.es # <<>>
  /\ call[1].out.kv[1][1] = PyStr(gen.name)

\* The number a digit sequence writes, read from the left.
RECURSIVE DecimalFrom(_, _)
DecimalFrom(ds, acc) ==
  IF ds = <<>> THEN acc ELSE DecimalFrom(Tail(ds), 10 * acc + DigitVal(Head(ds)))

RECURSIVE Pow10(_)
Pow10(k) == IF k = 0 THEN 1 ELSE 10 * Pow10(k - 1)

\* The numeral's value in units of 10^-Len(fp), signed.
NumeralUnits(g) ==
  LET d == DecimalFrom(g.ip \o g.fp, 0) IN IF g.neg THEN 0 - d ELSE d

\* C8: parse_number returns an integer when the numeral has no fractional
\* part (no dot, or only zeros after it) and a float otherwise, of the
\* numeral's value, sign included.
C8_IntegerOrFloat ==
  (gen.fam = "num" /\ call[1].pc = "return" /\ call[1].stack # <<>>)
  => LET v == call[1].ret
         k == Len(gen.fp)
     IN IF \A i \in 1..k : gen.fp[i] = "0"
        THEN v.t = "int" /\ v.i * Pow10(k) = NumeralUnits(gen)
        ELSE /\ v.t = "float" /\ v.e \in 1..k
             /\ v.m * Pow10(k - v.e) = NumeralUnits(gen)

\* A negative numeral with only zeros after its dot has come out as a
\* negative integer.
C8_Witness ==
  /\ gen.fam = "num" /\ call[1].pc = "return" /\ call[1].stack # <<>>
  /\ gen.neg /\ gen.fp # <<>> /\ \A i \in 1..Len(gen.fp) : gen.fp[i] = "0"
  /\ call[1].ret.t = "int" /\ call[1].ret.i < 0

DigitChar(d) ==
  CASE d = 0 -> "0" [] d = 1 -> "1" [] d = 2 -> "2" [] d = 3 -> "3"
    [] d = 4 -> "4" [] d = 5 -> "5" [] d = 6 -> "6" [] d = 7 -> "7"
    [] d = 8 -> "8" [] d = 9 -> "9"

\* The decimal text of a natural number.
RECURSIVE IntText(_)
IntText(i) ==
  IF i < 10 THEN <<DigitChar(i)>>
  ELSE IntText(i \div 10) \o <<DigitChar(i % 10)>>

\* name = {v1,v2,...} for a sequence of integers.
Serialize(name, xs) ==
  name \o <<" ", "=", " ", "{">>
    \o Concat([i \in 1..Len(xs) |->
                 IntText(xs[i].i) \o (IF i < Len(xs) THEN <<",">> ELSE <<>>)])
    \o <<"}">>

\* C9: a table of positive integers, all positional, parses to a sequence
\* as long as the table, and that sequence written back as
\* name = {v1,v2,...} parses to the same result.
C9_RoundTrip ==
  (gen.fam = "ints" /\ Started(1))
  => /\ ~Raised(1)
     /\ Done(1) =>
          LET v == TableOf(call[1].out)
          IN /\ v.t = "list" /\ Len(v.xs) = Len(gen.lits)
             /\ \A i \in 1..Len(v.xs) :
                  v.xs[i] = PyInt(DecimalFrom(gen.lits[i], 0))
             /\ Outcome(Parse(Serialize(<<"t">>, v.xs)))
                  = [st |-> "returned", val |-> call[1].out]

\* A table of several different integers has been parsed.
C9_Witness ==
  /\ gen.fam = "ints" /\ Done(1)
  /\ Len(gen.lits) > 1 /\ gen.lits[1] # gen.lits[Len(gen.lits)]
  /\ TableOf(call[1].out).t = "list"

\* C10: two calls whose steps interleave each end as they end when run
\* alone.
C10_CallsDoNotInterfere ==
  \A c \in Calls :
    (Started(c) /\ Ended(M(c))) => Outcome(M(c)) = Outcome(Parse(arg[c]))

\* Two calls on different texts have both ended, after steps of one were
\* taken while the other was under way.
C10_Witness ==
  /\ gen.fam = "pair" /\ gen.a # gen.b /\ overlap
  /\ Done(1) /\ Ended(M(2))

\* ------------------------------------------- claims on the resolver

Elems(s) == {s[i] : i \in 1..Len(s)}

\* The quests that S requires, at any distance.
RECURSIVE Closure(_, _)
Closure(deps, S) ==
  LET T == S \cup UNION {Elems(deps[q]) : q \in S \cap DOMAIN deps}
  IN IF T = S THEN S ELSE Closure(deps, T)

\* No quest requires itself, at any distance.
Acyclic(deps) ==
  \A q \in DOMAIN deps : q \notin Closure(deps, Elems(deps[q]))

\* Quest q is not completed and every quest it requires is.
Ready(r, q) ==
  /\ q \notin r.completed_ids
  /\ \A p \in Elems(RowsOf(r, q)) : p \in r.completed_ids

\* The call from outside has returned.
Answered == res.pc = "done"

\* The invocation that is about to return, once it is.
Returning == res.pc = "return"

\* C11: on an acyclic graph, with the target not completed, the call
\* returns a quest that is not completed and whose direct prerequisites
\* are all completed, however long the chain of unmet prerequisites is.
C11_DeepestUnmetLeaf ==
  (/\ Answered /\ ~gen.faults /\ gen.depth = 0
   /\ gen.quest \notin gen.completed /\ Acyclic(gen.deps))
  => (res.out # PyNone /\ Ready(res, res.out.id))

\* C12: an invocation on a quest that is not completed and whose direct
\* prerequisites are all completed, and whose lookups are answered,
\* returns the quest itself with its title.
C12_ReadyQuestReturned ==
  (/\ Returning /\ ~TooDeep(Top(res).depth) /\ ~Top(res).failed
   /\ Ready(res, Top(res).quest_id))
  => res.ret = PyPair(Top(res).quest_id, TitleOf(res, Top(res).quest_id))

\* The call from outside returns for a quest whose prerequisites, of which
\* there are some, are all completed.
C12_Witness ==
  /\ Returning /\ Len(res.stack) = 1 /\ gen.depth = 0
  /\ Ready(res, gen.quest) /\ RowsOf(res, gen.quest) # <<>>
  /\ res.ret = PyPair(gen.quest, TitleText(gen.quest))

\* C13: an invocation on a completed quest returns None and sends no
\* query, whatever the graph holds; called from outside, it is the only
\* invocation.
C13_CompletedGivesNone ==
  /\ (res.stack # <<>> /\ Top(res).quest_id \in res.completed_ids)
       => /\ Top(res).lookups = 0
          /\ res.pc \in {"enter", "return"}
          /\ Returning => res.ret = PyNone
  /\ (Answered /\ gen.quest \in gen.completed)
       => (res.out = PyNone /\ res.calls = 1)

\* The call has returned for a completed quest that lies on a cycle and
\* requires a quest that is not completed.
C13_Witness ==
  /\ Answered /\ gen.depth = 0 /\ gen.quest \in gen.completed
  /\ gen.deps[gen.quest] # <<>>
  /\ gen.quest \in Closure(gen.deps, {gen.deps[gen.quest][1]})
  /\ gen.deps[gen.quest][1] \notin gen.completed
  /\ res.out = PyNone

\* C14: on a cycle of more than MaxDepth quests, none of them completed,
\* the call at depth 0 returns None.
C14_LongCycleGivesNone ==
  (/\ Answered /\ gen.fam = "chain" /\ gen.cyclic /\ gen.len > MaxDepth
   /\ gen.completed = {} /\ gen.depth = 0 /\ ~gen.faults)
  => res.out = PyNone

\* The invocations under way are at depths that grow by one, MaxDepth + 1
\* at most, and MaxDepth + 2 invocations at most have been made.
DepthsInStep ==
  /\ \A i \in 1..Len(res.stack) : res.stack[i].depth = gen.depth + i - 1
  /\ gen.depth = 0
       => /\ \A i \in 1..Len(res.stack) : res.stack[i].depth <= MaxDepth + 1
          /\ res.calls <= MaxDepth + 2

\* C15: every call returns, on graphs with cycles too and whatever is
\* completed; the depth grows by one from an invocation to the one it
\* makes, and in a call at depth 0 it stays at 11 or below, with 12
\* invocations at most.
C15_Terminates == []DepthsInStep /\ <>Answered

\* A call at depth 0 on a cycle has returned after 12 invocations, the last
\* of them at depth 11.
C15_Witness ==
  /\ Answered /\ gen.depth = 0 /\ res.calls = MaxDepth + 2
  /\ gen.quest \in Closure(gen.deps, Elems(gen.deps[gen.quest]))

\* rows with what follows row i put in the order p.
TailPermuted(rows, i, p) ==
  [j \in 1..Len(rows) |-> IF j <= i THEN rows[j] ELSE rows[i + p[j - i]]]

\* C16: an invocation goes through its rows from the left and recurses
\* into the first one that is not completed; it returns what the
\* recursion found, or else that prerequisite, and never comes to the rows
\* behind it: putting those in another order gives the same result.
C16_FirstUnmetDecides ==
  /\ \A k \in 1..Len(res.stack) :
       LET f == res.stack[k]
       IN /\ f.seen <= Len(f.rows)
          /\ \A j \in 1..(f.seen - 1) : f.rows[j] \in res.completed_ids
          /\ f.parent_id # 0
               => /\ f.parent_id = f.rows[f.seen]
                  /\ f.parent_id \notin res.completed_ids
          /\ (k < Len(res.stack))
               => /\ res.stack[k + 1].quest_id = f.parent_id
                  /\ f.parent_id # 0
  /\ (Returning /\ ~gen.faults /\ Top(res).parent_id # 0)
       => LET f == Top(res)
              deeper == solve_dependency(res.deps, res.titles, f.parent_id,
                                         res.completed_ids, f.depth + 1)
          IN res.ret = IF deeper # PyNone THEN deeper
                       ELSE PyPair(f.parent_id, TitleOf(res, f.parent_id))
  /\ (Answered /\ ~gen.faults)
       => \A q \in DOMAIN gen.deps :
            \A i \in 1..Len(gen.deps[q]) :
              (/\ gen.deps[q][i] \notin gen.completed
               /\ \A j \in 1..(i - 1) : gen.deps[q][j] \in gen.completed)
              => \A p \in Permutations(1..(Len(gen.deps[q]) - i)) :
                   solve_dependency(
                     [gen.deps EXCEPT ![q] = TailPermuted(@, i, p)],
                     gen.titles, gen.quest, gen.completed, gen.depth)
                   = res.out

\* The call has returned the first of three prerequisites, none of them
\* completed, where the second one would have led to another quest.
C16_Witness ==
  /\ Answered /\ gen.fam = "graph" /\ gen.completed = {}
  /\ Len(gen.deps[gen.quest]) = 3
  /\ gen.deps[gen.quest][1] # gen.quest
  /\ gen.deps[gen.deps[gen.quest][1]] = <<>>
  /\ gen.deps[gen.quest][2] # gen.quest
  /\ gen.deps[gen.deps[gen.quest][2]] = <<gen.deps[gen.quest][1]>>
  /\ res.out = PyPair(gen.deps[gen.quest][1],
                      TitleOf(res, gen.deps[gen.quest][1]))

\* C17: an invocation at a depth above MaxDepth returns None at once,
\* before it looks into completed_ids and with no query sent; one at depth
\* MaxDepth or less returns None only for a completed quest or after a
\* failed lookup.
C17_GuardAtDepth ==
  \A k \in 1..Len(res.stack) :
    LET f == res.stack[k]
    IN IF f.depth > MaxDepth
       THEN /\ k = Len(res.stack) /\ res.pc \in {"enter", "return"}
            /\ ~f.checked /\ f.lookups = 0
            /\ Returning => (res.ret = PyNone /\ f.why = "guard")
       ELSE /\ f.why # "guard"
            /\ (k = Len(res.stack) /\ Returning /\ res.ret = PyNone)
                 => (f.quest_id \in res.completed_ids \/ f.failed)

\* A call at depth 0 has come to an invocation at depth MaxDepth + 1, which
\* returns None.
C17_Witness ==
  /\ Returning /\ gen.depth = 0 /\ Len(res.stack) = MaxDepth + 2
  /\ Top(res).depth = MaxDepth + 1 /\ res.ret = PyNone

\* C18: no failed lookup leaves solve_dependency as an exception; the
\* invocation whose lookup failed returns None.
C18_FailureGivesNone ==
  /\ res.pc # "raised"
  /\ \A k \in 1..Len(res.stack) :
       res.stack[k].failed
         => (k = Len(res.stack) /\ Returning /\ res.ret = PyNone)

\* A title lookup has failed in a nested invocation, after its
\* prerequisite lookup was answered.
C18_Witness ==
  /\ Returning /\ Len(res.stack) > 1
  /\ Top(res).failed /\ Top(res).lookups = 2 /\ res.ret = PyNone

\* C19: completed_ids and the database are, at every step of a call and
\* after it, what they were when the call was made.
C19_ArgumentsUnchanged ==
  /\ res.completed_ids = gen.completed
  /\ res.deps = gen.deps
  /\ res.titles = gen.titles

\* A call with a completed quest in its graph has returned after the depth
\* guard ended its deepest invocation.
C19_Witness ==
  /\ Answered /\ gen.depth = 0 /\ res.calls = MaxDepth + 2
  /\ gen.completed # {} /\ res.completed_ids = gen.completed
  /\ res.deps = gen.deps

\* ------------------------------------- the parser's use of its cursor

\* C20: the cursor of a call never moves backwards, and a pass of the loop
\* of parse_object that does not return leaves the cursor further on than
\* it found it.
C20_EveryPassConsumes ==
  [][\A c \in Calls :
       /\ cell'[CellOf(c)].idx >= cell[CellOf(c)].idx
       /\ (call[c].pc = "return" /\ call'[c].pc = "loop")
            => cell'[CellOf(c)].idx > call'[c].stack[Len(call'[c].stack)].head
    ]_vars

\* -------------------------------- further claims on the resolver

\* Quests a and b require each other and nothing else.
TwoCycle(deps, a, b) ==
  /\ a # b /\ a \in DOMAIN deps /\ b \in DOMAIN deps
  /\ deps[a] = <<b>> /\ deps[b] = <<a>>

\* C21: on the 2-cycle of A and B with nothing completed the call for A
\* returns (B, title of B) and the call for B returns (A, title of A); a
\* call whose lookups are answered returns what any other run on the same
\* graph, completed set and order of prerequisites returns.
C21_TwoCycleDeterministic ==
  (Answered /\ ~gen.faults)
  => /\ res.out = solve_dependency(gen.deps, gen.titles, gen.quest,
                                   gen.completed, gen.depth)
     /\ \A b \in DOMAIN gen.deps :
          (/\ TwoCycle(gen.deps, gen.quest, b)
           /\ gen.completed = {} /\ gen.depth = 0)
          => /\ res.out = PyPair(b, TitleOf(res, b))
             /\ solve_dependency(gen.deps, gen.titles, b, {}, 0)
                  = PyPair(gen.quest, TitleOf(res, gen.quest))

\* The call for quest 1 on the 2-cycle of quests 1 and 2 has returned
\* quest 2.
C21_Witness ==
  /\ Answered /\ ~gen.faults /\ gen.depth = 0 /\ gen.completed = {}
  /\ TwoCycle(gen.deps, gen.quest, 2)
  /\ res.out = PyPair(2, TitleText(2))

\* ------------------------------------- claims on numbers and strings

\* The stripped text of call c and its cursor.
TextOf(c) == cell[CellOf(c)].lua_string

CursorOf(c) == cell[CellOf(c)].idx

\* Where the value that call c is about to parse starts.
ValueStart(c) == skip_whitespace(TextOf(c), CursorOf(c))

\* Call c is about to parse a value, and parse_value will take it for a
\* number.
NumberNext(c) ==
  /\ call[c].pc = "value"
  /\ ValueStart(c) < Len(TextOf(c))
  /\ LET ch == TextOf(c)[ValueStart(c) + 1] IN isdigit(ch) \/ ch = "-"

\* The first character of the digits and dots of a number that starts at i.
AfterSign(s, i) == IF s[i + 1] = "-" THEN i + 1 ELSE i

\* Where the digits and dots from j end.
RunEnd(s, j) ==
  CHOOSE k \in j..Len(s) :
    /\ \A x \in (j + 1)..k : isdigit(s[x]) \/ s[x] = "."
    /\ k = Len(s) \/ ~(isdigit(s[k + 1]) \/ s[k + 1] = ".")

\* Where the digits from j, with one dot at most among them, end.
OneDotEnd(s, j) ==
  CHOOSE k \in j..Len(s) :
    /\ \A x \in (j + 1)..k : isdigit(s[x]) \/ s[x] = "."
    /\ Count(SubSeq(s, j + 1, k), ".") <= 1
    /\ \/ k = Len(s)
       \/ ~(isdigit(s[k + 1]) \/ s[k + 1] = ".")
       \/ (s[k + 1] = "." /\ Count(SubSeq(s, j + 1, k), ".") = 1)

\* float() takes w: an optional "-", then digits with one dot at most and
\* one digit at least.
ValidNumeral(w) ==
  LET u == IF w # <<>> /\ w[1] = "-" THEN Tail(w) ELSE w
  IN /\ \A x \in 1..Len(u) : isdigit(u[x]) \/ u[x] = "."
     /\ Count(u, ".") <= 1
     /\ \E x \in 1..Len(u) : isdigit(u[x])

\* C22: parse_number scans one dot at most: it stops before a second dot
\* and returns the number up to there.
C22_OneDotScanned ==
  [][\A c \in Calls :
       (NumberNext(c) /\ call'[c].pc = "return")
       => LET s == TextOf(c)
              i == ValueStart(c)
              k == OneDotEnd(s, AfterSign(s, i))
          IN /\ CursorOf(c)' = k
             /\ call'[c].ret = ToNumber(Slice(s, i, k))
    ]_vars

\* C23: when what parse_number scanned is no number, it returns the
\* integer 0 without raising, with the cursor behind the scanned
\* characters and further on than it was.
C23_BadNumberIsZero ==
  [][\A c \in Calls :
       LET s == TextOf(c)
           i == ValueStart(c)
           k == RunEnd(s, AfterSign(s, i))
       IN (NumberNext(c) /\ call'[c].pc # "value"
           /\ ~ValidNumeral(Slice(s, i, k)))
          => /\ call'[c].pc = "return"
             /\ call'[c].ret = PyInt(0)
             /\ CursorOf(c)' = k /\ k > i
    ]_vars

\* A table that starts with a lone "-" and goes on with a 4 has been
\* parsed to the sequence of 0 and 4.
C23_Witness ==
  /\ gen.fam = "tok" /\ gen.tok = <<"-">> /\ gen.tail = <<",", "4", "}">>
  /\ Done(1)
  /\ TableOf(call[1].out) = PyList(<<PyInt(0), PyInt(4)>>)

\* Call c is about to parse a value, and parse_value will take it for a
\* string.
StringNext(c) ==
  /\ call[c].pc = "value"
  /\ ValueStart(c) < Len(TextOf(c))
  /\ TextOf(c)[ValueStart(c) + 1] = "\""

\* In the string body that starts at cursor a, the character at cursor x
\* is the second of a backslash pair: it follows a backslash that is not
\* itself the second of a pair.
RECURSIVE Paired(_, _, _)
Paired(s, a, x) == x > a /\ s[x] = "\\" /\ ~Paired(s, a, x - 1)

\* The cursors of the quotes that close the string body starting at a.
ClosingQuotes(s, a) ==
  {x \in a..(Len(s) - 1) :
     /\ s[x + 1] = "\"" /\ ~Paired(s, a, x)
     /\ \A y \in a..(x - 1) : ~(s[y + 1] = "\"" /\ ~Paired(s, a, y))}

\* C24: parse_string returns the characters between the opening quote and
\* the first quote behind it that is not the second character of a
\* backslash pair, as they are written, and leaves the cursor behind that
\* quote.
C24_StringCopiedRaw ==
  [][\A c \in Calls :
       LET s == TextOf(c)
           a == ValueStart(c) + 1
       IN (StringNext(c) /\ call'[c].pc # "value")
          => \A x \in ClosingQuotes(s, a) :
               /\ call'[c].pc = "return"
               /\ call'[c].ret = PyStr(SubSeq(s, a + 1, x))
               /\ CursorOf(c)' = x + 1
    ]_vars

\* The literal "a\"b" has been parsed to the four characters a, backslash,
\* quote, b.
C24_Witness ==
  /\ gen.fam = "str" /\ gen.body = <<"a", "\\", "\"", "b">>
  /\ Done(1)
  /\ TableOf(call[1].out) = PyList(<<PyStr(<<"a", "\\", "\"", "b">>)>>)

\* ----------------------------------------------- claims on separators

\* The texts of the entries of a generated table.
EntryTexts(g) ==
  IF g.fam = "table" THEN [i \in 1..Len(g.es) |-> EntryText(g.es[i])]
  ELSE g.lits

\* t={...} with the entries ts, between[i] behind entry i and last behind
\* the last one.
SepText(ts, between, last) ==
  <<"t", "=", "{">>
    \o Concat([i \in 1..Len(ts) |->
                 ts[i] \o (IF i < Len(ts) THEN between[i] ELSE last)])
    \o <<"}">>

\* C25: a table of one entry or more parses to the same result with "," or
\* ";" in any of the places between its entries, and with one of them or
\* nothing behind its last entry.
C25_SeparatorsAlike ==
  (/\ gen.fam \in {"table", "ints"} /\ Started(1) /\ Ended(M(1))
   /\ EntryTexts(gen) # <<>>)
  => LET ts == EntryTexts(gen)
     IN \A between \in [1..(Len(ts) - 1) -> {<<",">>, <<";">>}] :
          \A last \in {<<>>, <<",">>, <<";">>} :
            Outcome(Parse(SepText(ts, between, last))) = Outcome(M(1))

\* The table {1,2,} has been parsed to the sequence of 1 and 2, as {1;2}
\* is.
C25_Witness ==
  /\ gen.fam = "ints" /\ gen.lits = <<<<"1">>, <<"2">>>>
  /\ gen.sep = <<",">> /\ gen.trail /\ Done(1)
  /\ TableOf(call[1].out) = PyList(<<PyInt(1), PyInt(2)>>)
  /\ Parse(<<"t", "=", "{", "1", ";", "2", "}">>).out = call[1].out

\* ------------------------------- what the resolver's result can be

\* The outermost invocation is about to return.
OuterReturning == Returning /\ Len(res.stack) = 1

\* C26: a call at depth 0 for a quest that is not completed, in whose
\* outermost invocation no lookup fails, returns a pair and not None, on
\* cycles and on chains longer than the depth limit too.
C26_TopLevelReturnsPair ==
  (/\ OuterReturning /\ gen.depth = 0
   /\ gen.quest \notin gen.completed /\ ~Top(res).failed)
  => (res.ret # PyNone /\ res.ret.t = "tuple")

\* A call on a cycle longer than the depth limit is about to return a
\* pair, after an invocation was cut by the guard.
C26_Witness ==
  /\ OuterReturning /\ gen.depth = 0 /\ gen.fam = "chain" /\ gen.cyclic
  /\ gen.len > MaxDepth + 1 /\ gen.completed = {}
  /\ res.calls = MaxDepth + 2 /\ res.ret # PyNone

\* The quests to which prerequisite edges lead from the quests of S
\* through quests that are not in completed_ids, S included.
RECURSIVE UnmetClosure(_, _, _)
UnmetClosure(deps, completed_ids, S) ==
  LET T == S \cup (UNION {Elems(deps[q]) : q \in S \cap DOMAIN deps}
                     \ completed_ids)
  IN IF T = S THEN S ELSE UnmetClosure(deps, completed_ids, T)

\* C27: the quest of a returned pair is not completed, and it is the
\* quest asked about or one that prerequisite edges lead to from it
\* through quests that are not completed.
C27_BlockerUnmetAndReachable ==
  (Returning /\ res.ret # PyNone)
  => /\ res.ret.id \notin res.completed_ids
     /\ res.ret.id \in UnmetClosure(res.deps, res.completed_ids,
                                    {Top(res).quest_id})

\* The call has returned its second prerequisite, the first one being
\* completed.
C27_Witness ==
  /\ Answered /\ gen.fam = "graph" /\ res.out # PyNone
  /\ Len(gen.deps[gen.quest]) >= 2
  /\ gen.deps[gen.quest][1] \in gen.completed
  /\ res.out.id = gen.deps[gen.quest][2]
  /\ res.out.id # gen.quest

\* C28: when the invocation made for a prerequisite has failed at a
\* lookup and the title lookup for that prerequisite is answered, the
\* invocation that made it returns the prerequisite with its title.
C28_NestedFailureReportsParent ==
  (Returning /\ Top(res).sub = "failed" /\ ~Top(res).failed)
  => res.ret = PyPair(Top(res).parent_id, TitleOf(res, Top(res).parent_id))

\* The call for quest 1 is about to return quest 2, whose invocation
\* failed at a lookup.
C28_Witness ==
  /\ OuterReturning /\ gen.depth = 0 /\ Top(res).sub = "failed"
  /\ res.calls = 2 /\ res.ret = PyPair(2, TitleText(2))

\* ------------------------------------- claims on texts that end early

\* The length of "t = {" and the first k entries of es, ", " between them.
LenThrough(es, k) ==
  Len(AssignText(<<"t">>, SubSeq(es, 1, k), <<",", " ">>, FALSE)) - 1

\* The key under which entry k of es is stored: its slot number when it is
\* positional, its key otherwise.
KeyOfEntry(es, k) ==
  IF es[k].kind = "pos"
  THEN PyInt(Cardinality({i \in 1..k : es[i].kind = "pos"}))
  ELSE es[k].keyval

\* The mapping of the first k entries of es.
RECURSIVE ObjThrough(_, _)
ObjThrough(es, k) ==
  IF k = 0 THEN <<>>
  ELSE SetItem(ObjThrough(es, k - 1), KeyOfEntry(es, k), es[k].val)

\* C29: a text that ends in a table body right behind a complete value, or
\* right behind the separator that follows one, is parsed without raising
\* to the mapping of the entries read, positional ones under their slot
\* numbers.
C29_CutBodyIsMapping ==
  (gen.fam = "cut" /\ Started(1) /\ Ended(M(1)))
  => \A k \in 1..Len(gen.es) :
       (\/ gen.cut = LenThrough(gen.es, k)
        \/ (k < Len(gen.es) /\ gen.cut = LenThrough(gen.es, k) + 1))
       => Outcome(M(1))
            = [st |-> "returned",
               val |-> PyDict(<< <<PyStr(<<"t">>),
                                   PyDict(ObjThrough(gen.es, k))>> >>)]

\* ------------------------------------------------ claims on ingestion

\* C30: the text ingest_all passes to parse_lua_table for a file is the
\* content of the file, and ingest_reputations is handed what the content
\* of the reputations file parses to.
C30_ParserGetsFileContent ==
  gen.fam = "ingest"
  => /\ ingest.parsing => arg[1] = gen.content
     /\ 1 \in ingest.handed => ingest.data[1] = Parse(gen.content).out

====
